---- MODULE Spec2Model ----
(***************************************************************************)
(* Model of the drone dashboard (HazemOdeh/sager-frontend):                *)
(*   - the status classifiers and the statistics aggregator (MapPage.jsx,  *)
(*     MapContainer.jsx, DroneMenu.jsx),                                   *)
(*   - mergeDroneData, the merge of a feed batch into the record array,    *)
(*   - createCurvedPath, the smoother of the flight paths,                 *)
(*   - the MapPage/MapContainer view: feed messages queued as functional   *)
(*     state updates, renders, the markers/camera effect, the              *)
(*     isProgrammaticMove guard and its setTimeout timers.                 *)
(*                                                                         *)
(* Four specifications share the variables:                                *)
(*   SpecClassify  applies the classifiers and calculateDroneStats to      *)
(*                 registrations drawn from all short strings;             *)
(*   SpecMerge     runs mergeDroneData one forEach iteration at a time on  *)
(*                 batches that may hold malformed features;               *)
(*   SpecCurve     applies createCurvedPath to drawn paths;                *)
(*   Spec          the map page driven by a feed of well-formed features,  *)
(*                 user clicks, map interactions, timers, mount, unmount.  *)
(*                                                                         *)
(* Values: a string is a sequence of one-character strings, a JS object is *)
(* a function from the names of the fields it has, a JS array is a         *)
(* sequence, and the value read from a missing field is Undefined.         *)
(***************************************************************************)
EXTENDS Integers, Sequences, FiniteSets, TLC

VARIABLES
    \* ---- SpecClassify: one call of the classifiers / the aggregator
    registration,      \* argument of the classifiers
    classified,        \* their results, or NotCalled
    statsInput,        \* argument of calculateDroneStats (array of records)
    statsResult,       \* its result, or NotCalled
    \* ---- SpecCurve: one call of createCurvedPath
    coordinates,       \* its argument: an array of [lng, lat] points
    curvedCoords,      \* the array it returned, or NotCalled
    pathGeometry,      \* what the flight path rendering drew for it, or NotCalled
    \* ---- SpecMerge: locals of one mergeDroneData call
    previousData,      \* parameter previousData
    newData,           \* newData.features
    updated,           \* the working copy `updated`
    updatedBefore,     \* `updated` as it was before the last iteration
    i,                 \* forEach position: next feature to process (1-based)
    mergePc,           \* "idle" | "loop" | "returned" | "threw"
    \* ---- the view (MapPage + MapContainer)
    droneData,         \* useState: the committed record array
    queue,             \* functional updates queued by handleMessage, not yet rendered
    received,          \* every feature delivered by the socket, in order
    flushed,           \* how many non-empty messages the last render applied
    selectedDrone,     \* useState: Null or a registration
    markersRef,        \* markersRef.current: registrations that have a marker
    isProgrammaticMove,\* isProgrammaticMove.current
    timers,            \* pending setTimeout callbacks: ms left, in creation order
    flyRemaining,      \* ms left of the camera animation in flight (0: none)
    lifecycle,         \* "initial" | "mounted" | "unmounted"
    socketHandlers,    \* how many "message" handlers the socket has registered
    mapRef,            \* mapRef.current holds a map instance
    droneStats,        \* useState: the statistics the counter overlay shows
    pendingStats,      \* the value given to setDroneStats, not yet rendered
    mapMarkers,        \* per registration: the positions of its markers on the map
    mapSources,        \* per registration: its path sources, each as the history drawn
    flyCenter          \* the center of the camera animation in flight, or NotCalled

classifyVars == <<registration, classified, statsInput, statsResult>>
curveVars    == <<coordinates, curvedCoords, pathGeometry>>
mergeVars    == <<previousData, newData, updated, updatedBefore, i, mergePc>>
lifeVars     == <<lifecycle, socketHandlers, mapRef>>
statsVars    == <<droneStats, pendingStats>>
mapVars      == <<mapMarkers, mapSources, flyCenter>>
viewVars     == <<queue, flushed, selectedDrone, markersRef,
                  isProgrammaticMove, timers, flyRemaining,
                  lifeVars, statsVars, mapVars>>
vars == <<classifyVars, curveVars, mergeVars, droneData, received, viewVars>>

----------------------------------------------------------------------------
(* Bounds *)

MaxRegLen == 3       \* longest registration string SpecClassify draws
MaxRecords == 3      \* longest record array given to calculateDroneStats
MaxBatch == 2        \* most features in one feed message
MaxFeatures == 2     \* most features SpecMerge receives in a session
MaxViewFeatures == 2 \* most features the view receives in a session
MaxQueue == 2        \* most state updates waiting for a render
MaxTimers == 2       \* most setTimeout callbacks pending at once
MaxPath == 3         \* longest path given to createCurvedPath
MaxStoreFeatures == 3 \* most features SpecStore receives in a session

----------------------------------------------------------------------------
(* Values *)

Undefined == <<>>            \* the value of a missing field
Null == <<"null">>           \* useState(null)
NotCalled == <<>>           \* no result yet; a result v is held as <<v>>

Alphabet == {"R", "-", "A", "B"}

RECURSIVE StringsOfLen(_)
StringsOfLen(n) ==
    IF n = 0 THEN {<<>>}
    ELSE {Append(s, c) : s \in StringsOfLen(n - 1), c \in Alphabet}

\* every non-empty string over Alphabet of at most MaxRegLen characters
RegStrings == UNION {StringsOfLen(n) : n \in 1..MaxRegLen}

\* obj.f, for an object of the model
Get(obj, f) == IF f \in DOMAIN obj THEN obj[f] ELSE Undefined

\* { ...a, ...b }
Spread(a, b) ==
    [f \in (DOMAIN a) \cup (DOMAIN b) |-> IF f \in DOMAIN b THEN b[f] ELSE a[f]]

----------------------------------------------------------------------------
(* String.prototype.split("-") and startsWith *)

\* the segments of s between "-" characters, left to right
RECURSIVE SplitFrom(_, _, _, _)
SplitFrom(s, k, cur, acc) ==
    IF k > Len(s) THEN Append(acc, cur)
    ELSE IF s[k] = "-" THEN SplitFrom(s, k + 1, <<>>, Append(acc, cur))
    ELSE SplitFrom(s, k + 1, Append(cur, s[k]), acc)

Split(s) == SplitFrom(s, 1, <<>>, <<>>)

\* registration.split("-")[1]?.startsWith(c): "true", "false" or "undefined"
SecondSegmentStartsWith(reg, c) ==
    LET parts == Split(reg) IN
    IF Len(parts) < 2 THEN "undefined"
    ELSE IF Len(parts[2]) > 0 /\ parts[2][1] = c THEN "true"
    ELSE "false"

\* ToBoolean of such a value
Truthy(v) == v = "true"

----------------------------------------------------------------------------
(* The three classifiers *)

ACTIVE_PREFIX == "B"

\* MapPage.jsx: !registration.split("-")[1]?.startsWith(ACTIVE_PREFIX)
isDroneActive(reg) == ~Truthy(SecondSegmentStartsWith(reg, ACTIVE_PREFIX))

\* MapContainer.jsx: getDroneStatus(registration).status
getDroneStatus(reg) ==
    LET isFlyable == SecondSegmentStartsWith(reg, "B") IN
    [isFlyable |-> isFlyable,
     color     |-> IF Truthy(isFlyable) THEN "#00FF00" ELSE "#FF0000",
     status    |-> IF Truthy(isFlyable) THEN "Active" ELSE "Inactive"]

\* DroneMenu.jsx: getStatusColor(registration)
getStatusColor(reg) ==
    LET prefix == SecondSegmentStartsWith(reg, "B") IN
    IF Truthy(prefix) THEN "bg-[#5CFC00]" ELSE "bg-[#F9000E]"

calculateDroneStats(data) ==
    LET Active(drone) == isDroneActive(drone.properties.registration)
        Inactive(drone) == ~isDroneActive(drone.properties.registration)
    IN [active   |-> Len(SelectSeq(data, Active)),
        inactive |-> Len(SelectSeq(data, Inactive)),
        total    |-> Len(data)]

----------------------------------------------------------------------------
(* mergeDroneData *)

\* a findIndex that never finds the record
findIndex_NeverFinds(arr, reg) == -1

\* updated.findIndex(drone => drone.properties.registration === reg),
\* 1-based; -1 when no record matches
findIndex(arr, reg) ==
    LET hits == {k \in 1..Len(arr) : Get(arr[k].properties, "registration") = reg}
    IN IF hits = {} THEN -1
       ELSE CHOOSE k \in hits : \A m \in hits : k <= m

\* the outcome of a step that can raise a TypeError
Returns(v) == [threw |-> FALSE, value |-> v]
Throws(v)  == [threw |-> TRUE,  value |-> v]

\* variants of ExistingUpdated: properties replaced wholesale; the history
\* restarted at the new position; the old geometry kept
ExistingUpdated_ReplacesProperties(existing, newDrone) ==
    Spread(existing,
           [positions  |-> Append(existing.positions,
                                  Get(newDrone.geometry, "coordinates")),
            geometry   |-> newDrone.geometry,
            properties |-> newDrone.properties])

ExistingUpdated_RestartsHistory(existing, newDrone) ==
    Spread(existing,
           [positions  |-> <<Get(newDrone.geometry, "coordinates")>>,
            geometry   |-> newDrone.geometry,
            properties |-> Spread(existing.properties, newDrone.properties)])

ExistingUpdated_KeepsGeometry(existing, newDrone) ==
    Spread(existing,
           [positions  |-> Append(existing.positions,
                                  Get(newDrone.geometry, "coordinates")),
            properties |-> Spread(existing.properties, newDrone.properties)])

\* { ...existing, positions: [...existing.positions, coordinates],
\*   geometry: newDrone.geometry,
\*   properties: { ...existing.properties, ...newDrone.properties } }
ExistingUpdated(existing, newDrone) ==
    Spread(existing,
           [positions  |-> Append(existing.positions,
                                  Get(newDrone.geometry, "coordinates")),
            geometry   |-> newDrone.geometry,
            properties |-> Spread(existing.properties, newDrone.properties)])

\* a variant of NewRecord: the history starts empty
NewRecord_EmptyHistory(newDrone) ==
    Spread(newDrone, [positions |-> <<>>])

\* { ...newDrone, positions: [newDrone.geometry.coordinates] }
NewRecord(newDrone) ==
    Spread(newDrone, [positions |-> <<Get(newDrone.geometry, "coordinates")>>])

\* a variant of MergeOne: the updated record is taken out of its place and
\* pushed at the end of the array
MergeOne_MovesToEnd(arr, newDrone) ==
    IF "properties" \notin DOMAIN newDrone THEN Throws(arr)
    ELSE LET reg == Get(newDrone.properties, "registration")
             existingIndex == findIndex(arr, reg)
         IN  IF "geometry" \notin DOMAIN newDrone THEN Throws(arr)
             ELSE IF existingIndex # -1
             THEN Returns(Append(
                    [k \in 1..(Len(arr) - 1) |->
                        IF k < existingIndex THEN arr[k] ELSE arr[k + 1]],
                    ExistingUpdated(arr[existingIndex], newDrone)))
             ELSE Returns(Append(arr, NewRecord(newDrone)))

\* a variant of MergeOne: the new position is pushed to the history of every
\* record of the array
MergeOne_TouchesAll(arr, newDrone) ==
    IF "properties" \notin DOMAIN newDrone THEN Throws(arr)
    ELSE LET reg == Get(newDrone.properties, "registration")
             existingIndex == findIndex(arr, reg)
             moved == [k \in 1..Len(arr) |->
                         [arr[k] EXCEPT !.positions =
                             Append(@, Get(newDrone.geometry, "coordinates"))]]
         IN  IF "geometry" \notin DOMAIN newDrone THEN Throws(arr)
             ELSE IF existingIndex # -1
             THEN Returns([moved EXCEPT ![existingIndex] =
                                ExistingUpdated(arr[existingIndex], newDrone)])
             ELSE Returns(Append(moved, NewRecord(newDrone)))

\* a variant of MergeOne: a registration the array does not have replaces
\* the array, updated = [{ ...newDrone, positions: [...] }]
MergeOne_DropsOthers(arr, newDrone) ==
    IF "properties" \notin DOMAIN newDrone THEN Throws(arr)
    ELSE LET reg == Get(newDrone.properties, "registration")
             existingIndex == findIndex(arr, reg)
         IN  IF "geometry" \notin DOMAIN newDrone THEN Throws(arr)
             ELSE IF existingIndex # -1
             THEN Returns([arr EXCEPT ![existingIndex] =
                                ExistingUpdated(arr[existingIndex], newDrone)])
             ELSE Returns(<<NewRecord(newDrone)>>)

\* one iteration of newData.features.forEach: the body applied to newDrone.
\* Reading .registration of a missing properties object, or .coordinates of
\* a missing geometry object, raises a TypeError.
MergeOne(arr, newDrone) ==
    IF "properties" \notin DOMAIN newDrone THEN Throws(arr)
    ELSE
    LET reg == Get(newDrone.properties, "registration")
        existingIndex == findIndex(arr, reg)
    IN  IF "geometry" \notin DOMAIN newDrone THEN Throws(arr)
        ELSE IF existingIndex # -1
        THEN Returns([arr EXCEPT ![existingIndex] =
                            ExistingUpdated(arr[existingIndex], newDrone)])
        ELSE Returns(Append(arr, NewRecord(newDrone)))

\* the forEach loop over features, from the array arr; stops at a TypeError
RECURSIVE MergeAll(_, _)
MergeAll(arr, features) ==
    IF features = <<>> THEN Returns(arr)
    ELSE LET step == MergeOne(arr, features[1]) IN
         IF step.threw THEN step
         ELSE MergeAll(step.value, Tail(features))

\* mergeDroneData(previousData, newData): updated = [...previousData], the
\* loop, return updated
mergeDroneData(prev, features) == MergeAll(prev, features)

----------------------------------------------------------------------------
(* The feed *)

R1 == <<"R", "-", "B">>
R2 == <<"R", "-", "A">>
Regs == {R1, R2}
Coords == {<<10, 20>>, <<11, 21>>}
Names == {"N1", "N2"}

\* the properties objects the feed sends: the registration, with or without
\* the optional Name; and one that lacks the registration
PropertiesObjects ==
      {[f \in {"registration"} |-> r] : r \in Regs}
 \cup {[registration |-> r, Name |-> n] : r \in Regs, n \in Names}
 \cup {[f \in {"Name"} |-> "N1"]}

\* the geometry objects: with the coordinate, and one that lacks it
GeometryObjects ==
    {[coordinates |-> c] : c \in Coords} \cup {[f \in {} |-> Undefined]}

\* every feature the feed can send, well formed or not: the last two lack
\* the geometry object and the properties object
AnyFeatures ==
      {[properties |-> p, geometry |-> g] :
            p \in PropertiesObjects, g \in GeometryObjects}
 \cup {[f \in {"properties"} |-> [registration |-> R1]]}
 \cup {[f \in {"geometry"} |-> [coordinates |-> <<10, 20>>]]}

\* a feature that has its registration and its coordinate
WellFormed(f) ==
    /\ "properties" \in DOMAIN f
    /\ "registration" \in DOMAIN f.properties
    /\ "geometry" \in DOMAIN f
    /\ "coordinates" \in DOMAIN f.geometry

\* the point the n-th feature of a session carries (n from 0): the feed of
\* the view reports a new position with every update, so that every update
\* can be told apart in the histories
PathPoint(n) == <<10 + n, 20>>

\* a feature of the known message shape
ViewFeature(reg, n) ==
    [properties |-> [registration |-> reg],
     geometry   |-> [coordinates |-> PathPoint(n)]]

RECURSIVE SeqsOfLen(_, _)
SeqsOfLen(S, n) ==
    IF n = 0 THEN {<<>>}
    ELSE {Append(q, x) : q \in SeqsOfLen(S, n - 1), x \in S}

\* arrays of at most n elements of S
SeqsUpTo(S, n) == UNION {SeqsOfLen(S, k) : k \in 0..n}

\* the concatenation of a sequence of arrays
RECURSIVE Flatten(_)
Flatten(ss) == IF ss = <<>> THEN <<>> ELSE ss[1] \o Flatten(Tail(ss))

----------------------------------------------------------------------------
(* Initial values *)

ClassifyIdle ==
    /\ registration = R1
    /\ classified = NotCalled
    /\ statsInput = <<>>
    /\ statsResult = NotCalled

CurveIdle ==
    /\ coordinates = <<>>
    /\ curvedCoords = NotCalled
    /\ pathGeometry = NotCalled

MergeIdle ==
    /\ previousData = <<>>
    /\ newData = <<>>
    /\ updated = <<>>
    /\ updatedBefore = <<>>
    /\ i = 1
    /\ mergePc = "idle"

\* useState({ total: 0, active: 0, inactive: 0 })
InitialStats == [total |-> 0, active |-> 0, inactive |-> 0]

\* the state and the refs of a component instance that has not rendered
InstanceInit ==
    /\ droneData = <<>>
    /\ queue = <<>>
    /\ received = <<>>
    /\ flushed = 0
    /\ selectedDrone = Null
    /\ markersRef = {}
    /\ isProgrammaticMove = FALSE
    /\ timers = <<>>
    /\ flyRemaining = 0
    /\ mapRef = FALSE
    /\ droneStats = InitialStats
    /\ pendingStats = NotCalled
    /\ mapMarkers = [r \in Regs |-> <<>>]
    /\ mapSources = [r \in Regs |-> <<>>]
    /\ flyCenter = NotCalled

\* the page is not mounted; the socket of the module has no handler
ViewInit ==
    /\ InstanceInit
    /\ lifecycle = "initial"
    /\ socketHandlers = 0

----------------------------------------------------------------------------
(* SpecClassify: the classifiers and the aggregator on drawn inputs *)

\* registrations of the records given to calculateDroneStats: active,
\* inactive, no second segment, "B" in the first segment only
StatsRegs == {R1, R2, <<"R">>, <<"B", "-", "R">>}

RecordOf(reg) ==
    [properties |-> [registration |-> reg],
     geometry   |-> [coordinates |-> <<10, 20>>],
     positions  |-> <<(<<10, 20>>)>>]

InitClassify ==
    /\ registration \in RegStrings
    /\ classified = NotCalled
    /\ statsInput \in SeqsUpTo({RecordOf(r) : r \in StatsRegs}, MaxRecords)
    /\ statsResult = NotCalled
    /\ CurveIdle
    /\ MergeIdle
    /\ ViewInit

Classify ==
    /\ classified = NotCalled
    /\ classified' = <<[isDroneActive  |-> isDroneActive(registration),
                        getDroneStatus |-> getDroneStatus(registration),
                        getStatusColor |-> getStatusColor(registration)]>>
    /\ UNCHANGED <<registration, statsInput, statsResult>>
    /\ UNCHANGED <<curveVars, mergeVars, droneData, received, viewVars>>

Aggregate ==
    /\ statsResult = NotCalled
    /\ statsResult' = <<calculateDroneStats(statsInput)>>
    /\ UNCHANGED <<registration, classified, statsInput>>
    /\ UNCHANGED <<curveVars, mergeVars, droneData, received, viewVars>>

NextClassify == Classify \/ Aggregate

SpecClassify == InitClassify /\ [][NextClassify]_vars

----------------------------------------------------------------------------
(* The rule of section 4.2, stated on the characters of the registration:  *)
(* the character after the first "-" is "B"                                *)

SecondSegmentStartsWithB(reg) ==
    \E k \in 1..(Len(reg) - 1) :
        /\ reg[k] = "-"
        /\ \A m \in 1..(k - 1) : reg[m] # "-"
        /\ reg[k + 1] = "B"

\* C2: every classification routine (isDroneActive, getDroneStatus,
\* getStatusColor) returns active exactly for the registrations whose second
\* "-"-separated segment starts with "B", and inactive for all others,
\* registrations without a second segment included.
C2_ClassifiersFollowRule ==
    classified # NotCalled =>
        LET c == classified[1]
            rule == SecondSegmentStartsWithB(registration)
        IN  /\ c.isDroneActive = rule
            /\ (c.getDroneStatus.status = "Active") = rule
            /\ (c.getDroneStatus.status = "Inactive") = ~rule
            /\ (c.getStatusColor = "bg-[#5CFC00]") = rule

\* C26: the three classification routines agree on every registration:
\* isDroneActive is true exactly when getDroneStatus says "Active", and that
\* exactly when getStatusColor gives the colour of an active drone.
C26_SurfacesAgree ==
    classified # NotCalled =>
        LET c == classified[1] IN
        /\ c.isDroneActive = (c.getDroneStatus.status = "Active")
        /\ (c.getDroneStatus.status = "Active")
                = (c.getStatusColor = "bg-[#5CFC00]")

\* C3: calculateDroneStats returns active = the number of records whose
\* registration follows the rule, inactive = the number of the others and
\* total = the number of records.
C3_StatsCountRule ==
    statsResult # NotCalled =>
        LET st == statsResult[1]
            actives == {k \in 1..Len(statsInput) :
                SecondSegmentStartsWithB(statsInput[k].properties.registration)}
        IN  /\ st.active = Cardinality(actives)
            /\ st.inactive = Len(statsInput) - Cardinality(actives)
            /\ st.total = Len(statsInput)

----------------------------------------------------------------------------
(* createCurvedPath.  The numbers of the model are exact fractions: a      *)
(* coordinate is a whole number of hundredths of a degree (CoordDen), and  *)
(* every value computed from coordinates is a whole numerator over the     *)
(* denominator of its kind, so that no step rounds.                        *)

CURVE_STEPS == 20
CURVE_OFFSET_FACTOR == <<3, 10>>     \* 0.3, as numerator and denominator
MAX_CURVE_OFFSET == <<1, 100>>       \* 0.01

\* coordinates, dx, dy and distance: multiples of MAX_CURVE_OFFSET, 1/100
CoordDen == MAX_CURVE_OFFSET[2]
\* curveOffset: 1/1000
OffsetDen == CoordDen * CURVE_OFFSET_FACTOR[2]
\* controlLng, controlLat: 1/100000
ControlDen == CoordDen * OffsetDen
\* the points pushed: 1/(100000 * CURVE_STEPS^2)
OutDen == ControlDen * CURVE_STEPS * CURVE_STEPS

\* Math.sqrt on the whole numbers that are squares; rounded down elsewhere
Sqrt(n) == CHOOSE r \in 0..n : r * r <= n /\ n < (r + 1) * (r + 1)

Min(a, b) == IF a < b THEN a ELSE b

\* a point of the argument, as it is when pushed unchanged
Exact(point) ==
    <<point[1] * (OutDen \div CoordDen), point[2] * (OutDen \div CoordDen)>>

\* Math.min(distance * CURVE_OFFSET_FACTOR, MAX_CURVE_OFFSET)
CurveOffset(distance) ==
    Min(distance * CURVE_OFFSET_FACTOR[1],
        MAX_CURVE_OFFSET[1] * (OffsetDen \div MAX_CURVE_OFFSET[2]))

\* [controlLng, controlLat] of the segment from start to end
ControlPoint(start, end) ==
    LET dx == end[1] - start[1]
        dy == end[2] - start[2]
        distance == Sqrt(dx * dx + dy * dy)
        curveOffset == CurveOffset(distance)
        half == ControlDen \div (2 * CoordDen)
        midLng == half * (start[1] + end[1])
        midLat == half * (start[2] + end[2])
    IN  <<midLng - dy * curveOffset, midLat + dx * curveOffset>>

\* [lng, lat] at step t of the segment: u = t / CURVE_STEPS
BezierPoint(start, end, control, t) ==
    LET u  == t
        u2 == u * u
        u3 == CURVE_STEPS - u
        u4 == u3 * u3
        up == ControlDen \div CoordDen
    IN  <<u4 * up * start[1] + 2 * u3 * u * control[1] + u2 * up * end[1],
          u4 * up * start[2] + 2 * u3 * u * control[2] + u2 * up * end[2]>>

\* a variant of SegmentSamples: the inner loop runs while t < CURVE_STEPS
SegmentSamples_StopsEarly(coords, seg) ==
    LET start == coords[seg]
        end == coords[seg + 1]
        control == ControlPoint(start, end)
        first == IF seg = 1 THEN 0 ELSE 1
    IN  [k \in 1..(CURVE_STEPS - first) |->
            BezierPoint(start, end, control, first + k - 1)]

\* the points the segment seg pushes (seg from 1; i = seg - 1): t = 0..CURVE_STEPS, t = 0
\* only for the first segment
SegmentSamples(coords, seg) ==
    LET start == coords[seg]
        end == coords[seg + 1]
        control == ControlPoint(start, end)
        first == IF seg = 1 THEN 0 ELSE 1
    IN  [k \in 1..(CURVE_STEPS - first + 1) |->
            BezierPoint(start, end, control, first + k - 1)]

\* the outer loop, from segment seg on
RECURSIVE Segments(_, _)
Segments(coords, seg) ==
    IF seg > Len(coords) - 1 THEN <<>>
    ELSE SegmentSamples(coords, seg) \o Segments(coords, seg + 1)

createCurvedPath(coords) ==
    IF Len(coords) < 2 THEN [k \in 1..Len(coords) |-> Exact(coords[k])]
    ELSE <<Exact(coords[1])>> \o Segments(coords, 1)

\* the condition under which a flight path is rendered for a history
HasPath(positions) == Len(positions) > 1

\* a variant of FlightPath: a path is drawn from the first position on,
\* if (drone.positions.length > 0)
FlightPath_DrawsSinglePoint(positions) ==
    IF Len(positions) > 0 THEN <<createCurvedPath(positions)>> ELSE <<>>

\* the line geometry the markers effect gives to the path source of a drone
\* with these positions, as <<coordinates>>; <<>> when it draws no path
FlightPath(positions) ==
    IF HasPath(positions) THEN <<createCurvedPath(positions)>> ELSE <<>>

----------------------------------------------------------------------------
(* SpecCurve: createCurvedPath and the flight path rendering on drawn      *)
(* paths                                                                   *)

\* the points of the paths: a repeated point gives a segment of length 0,
\* the others segments of length 2 and 3 (curveOffset below the maximum),
\* 4 and 5 (the maximum) and of lengths that are no whole numbers (all of
\* them above the maximum); the last point is 5 degrees from the first
CurvePoints == {<<0, 0>>, <<2, 0>>, <<2, 4>>, <<5, 4>>, <<300, 400>>}

InitCurve ==
    /\ coordinates \in SeqsUpTo(CurvePoints, MaxPath)
    /\ curvedCoords = NotCalled
    /\ pathGeometry = NotCalled
    /\ ClassifyIdle
    /\ MergeIdle
    /\ ViewInit

\* createCurvedPath(coordinates)
Smooth ==
    /\ curvedCoords = NotCalled
    /\ curvedCoords' = <<createCurvedPath(coordinates)>>
    /\ UNCHANGED <<coordinates, pathGeometry>>
    /\ UNCHANGED <<classifyVars, mergeVars, droneData, received, viewVars>>

\* the flight path rendering of a drone whose positions are coordinates
RenderPath ==
    /\ pathGeometry = NotCalled
    /\ pathGeometry' = <<FlightPath(coordinates)>>
    /\ UNCHANGED <<coordinates, curvedCoords>>
    /\ UNCHANGED <<classifyVars, mergeVars, droneData, received, viewVars>>

NextCurve == Smooth \/ RenderPath

SpecCurve == InitCurve /\ [][NextCurve]_vars

\* C20: for every path of at least two points the first element of the
\* result is exactly the first point of the path and the last element is
\* exactly its last point.
C20_EndpointsPreserved ==
    (curvedCoords # NotCalled /\ Len(coordinates) >= 2) =>
        LET out == curvedCoords[1] IN
        /\ out[1] = Exact(coordinates[1])
        /\ out[Len(out)] = Exact(coordinates[Len(coordinates)])

\* a path of three points that ends away from where it starts, smoothed
C20_Witness ==
    /\ curvedCoords # NotCalled
    /\ Len(coordinates) = 3
    /\ coordinates[1] # coordinates[3]
    /\ coordinates[2] # coordinates[3]
    /\ Len(curvedCoords[1]) > Len(coordinates)

\* C21: for a path of no point or one point createCurvedPath returns the
\* path unchanged, and the flight path rendering draws no geometry for it.
C21_ShortPathUnchanged ==
    Len(coordinates) < 2 =>
        /\ curvedCoords # NotCalled =>
                curvedCoords[1] = [k \in 1..Len(coordinates) |->
                                        Exact(coordinates[k])]
        /\ pathGeometry # NotCalled => pathGeometry[1] = <<>>

\* a path of one point was smoothed and given to the flight path rendering
C21_Witness ==
    /\ Len(coordinates) = 1
    /\ curvedCoords # NotCalled
    /\ pathGeometry # NotCalled

\* C24: for a path of n >= 2 points the result has CURVE_STEPS * (n - 1) + 1
\* elements: each point of the path once, at the start of its segment, each
\* followed by the CURVE_STEPS - 1 interior samples of the segment, and the
\* last point at the end.
C24_NoDuplicatedEndpoints ==
    (curvedCoords # NotCalled /\ Len(coordinates) >= 2) =>
        LET out == curvedCoords[1] IN
        /\ Len(out) = CURVE_STEPS * (Len(coordinates) - 1) + 1
        /\ \A k \in 1..Len(coordinates) :
                out[CURVE_STEPS * (k - 1) + 1] = Exact(coordinates[k])

\* the displacement of the control point of the segment from start to end
\* from the midpoint of the segment, squared, in 1/ControlDen degree
DisplacementSquared(start, end) ==
    LET control == ControlPoint(start, end)
        half == ControlDen \div (2 * CoordDen)
        lng == control[1] - half * (start[1] + end[1])
        lat == control[2] - half * (start[2] + end[2])
    IN  lng * lng + lat * lat

\* the length of the segment from start to end, in 1/CoordDen degree
Distance(start, end) ==
    Sqrt((end[1] - start[1]) * (end[1] - start[1])
            + (end[2] - start[2]) * (end[2] - start[2]))

\* C25: for every segment of a smoothed path the control point lies at the
\* distance min(distance * CURVE_OFFSET_FACTOR, MAX_CURVE_OFFSET) from the
\* midpoint of the segment, and so never farther than MAX_CURVE_OFFSET.
C25_ControlDisplacement ==
    (curvedCoords # NotCalled /\ Len(coordinates) >= 2) =>
        \A k \in 1..(Len(coordinates) - 1) :
            LET start == coordinates[k]
                end == coordinates[k + 1]
                offset == CurveOffset(Distance(start, end))
                           * (ControlDen \div OffsetDen)
                most == MAX_CURVE_OFFSET[1] * (ControlDen \div MAX_CURVE_OFFSET[2])
            IN  /\ DisplacementSquared(start, end) = offset * offset
                /\ DisplacementSquared(start, end) <= most * most

----------------------------------------------------------------------------
(* SpecMerge: mergeDroneData, one forEach iteration per step, called on    *)
(* the array the previous call returned                                    *)

\* the batches a session that may receive `limit` features can still get
Batches(S, limit) ==
    LET left == limit - Len(received)
        most == IF left < MaxBatch THEN left ELSE MaxBatch
    IN  UNION {SeqsOfLen(S, n) : n \in 0..most}

\* received records the features in the order of delivery
Record(features) == received' = received \o features

InitMerge ==
    /\ ClassifyIdle
    /\ CurveIdle
    /\ MergeIdle
    /\ ViewInit

\* a variant of MergeBegin: the working copy starts empty,
\* const updated = [] instead of [...previousData]
MergeBegin_StartsEmpty(features) ==
    /\ mergePc # "loop"
    /\ Record(features)
    /\ previousData' = droneData
    /\ newData' = features
    /\ updated' = <<>>
    /\ updatedBefore' = <<>>
    /\ i' = 1
    /\ mergePc' = "loop"
    /\ UNCHANGED <<classifyVars, curveVars, droneData, viewVars>>

\* handleMessage's updater calls mergeDroneData(previousData, data)
MergeBegin(features) ==
    /\ mergePc # "loop"
    /\ Record(features)
    /\ previousData' = droneData
    /\ newData' = features
    /\ updated' = droneData
    /\ updatedBefore' = droneData
    /\ i' = 1
    /\ mergePc' = "loop"
    /\ UNCHANGED <<classifyVars, curveVars, droneData, viewVars>>

\* a variant of MergeIter: no copy is taken (const updated = previousData),
\* so that every iteration writes into the array the readers hold
MergeIter_MutatesInPlace ==
    /\ mergePc = "loop"
    /\ i <= Len(newData)
    /\ LET step == MergeOne(updated, newData[i]) IN
       IF step.threw
       THEN /\ mergePc' = "threw"
            /\ UNCHANGED <<updated, updatedBefore, i, droneData>>
       ELSE /\ updatedBefore' = updated
            /\ updated' = step.value
            /\ droneData' = step.value
            /\ i' = i + 1
            /\ UNCHANGED mergePc
    /\ UNCHANGED <<previousData, newData>>
    /\ UNCHANGED <<classifyVars, curveVars, received, viewVars>>

\* one iteration of the forEach
MergeIter ==
    /\ mergePc = "loop"
    /\ i <= Len(newData)
    /\ LET step == MergeOne(updated, newData[i]) IN
       IF step.threw
       THEN /\ mergePc' = "threw"
            /\ UNCHANGED <<updated, updatedBefore, i>>
       ELSE /\ updatedBefore' = updated
            /\ updated' = step.value
            /\ i' = i + 1
            /\ UNCHANGED mergePc
    /\ UNCHANGED <<previousData, newData>>
    /\ UNCHANGED <<classifyVars, curveVars, droneData, received, viewVars>>

\* return updated; the caller stores it as the new droneData
MergeReturn ==
    /\ mergePc = "loop"
    /\ i > Len(newData)
    /\ mergePc' = "returned"
    /\ droneData' = updated
    /\ UNCHANGED <<previousData, newData, updated, updatedBefore, i>>
    /\ UNCHANGED <<classifyVars, curveVars, received, viewVars>>

NextMerge ==
    \/ \E features \in Batches(AnyFeatures, MaxFeatures) : MergeBegin(features)
    \/ MergeIter
    \/ MergeReturn

SpecMerge == InitMerge /\ [][NextMerge]_vars

\* an iteration of the current call has completed: newData[i - 1] was merged
\* into updatedBefore, giving updated
IterDone == mergePc \in {"loop", "returned"} /\ i > 1

lastDrone == newData[i - 1]
lastReg == Get(lastDrone.properties, "registration")

\* the places of the records of arr that have registration reg
Places(arr, reg) ==
    {k \in 1..Len(arr) : Get(arr[k].properties, "registration") = reg}

lastCoords == Get(lastDrone.geometry, "coordinates")

\* xs is a prefix of ys
IsPrefix(xs, ys) == Len(xs) <= Len(ys) /\ SubSeq(ys, 1, Len(xs)) = xs

C5_MalformedDiscarded ==
    /\ mergePc # "threw"
    /\ (IterDone /\ ~WellFormed(lastDrone)) => updated = updatedBefore

\* C6: the merge of an update whose registration has no record appends
\* exactly one record: history = the one-element sequence of the update's
\* coordinates, current position = those coordinates, attributes = the
\* update's attributes verbatim; the records before it are untouched.
C6_NewRecordCreated ==
    (IterDone /\ Places(updatedBefore, lastReg) = {}) =>
        /\ Len(updated) = Len(updatedBefore) + 1
        /\ SubSeq(updated, 1, Len(updatedBefore)) = updatedBefore
        /\ Places(updated, lastReg) = {Len(updated)}
        /\ LET rec == updated[Len(updated)] IN
            /\ rec.positions = <<lastCoords>>
            /\ Get(rec.geometry, "coordinates") = lastCoords
            /\ rec.properties = lastDrone.properties

\* a well-formed update for a new registration was merged into a store that
\* already held another drone
C6_Witness ==
    /\ IterDone
    /\ WellFormed(lastDrone)
    /\ Places(updatedBefore, lastReg) = {}
    /\ Len(updatedBefore) >= 1

\* C7: the history of every record before an iteration is a prefix of its
\* history after it; the record of the update's registration is extended by
\* exactly the update's coordinates and every other history is unchanged; and
\* every history at the start of the call is a prefix of the history the call
\* has built.
C7_HistoryAppendOnly ==
    /\ IterDone =>
        /\ Len(updated) >= Len(updatedBefore)
        /\ \A k \in 1..Len(updatedBefore) :
            updated[k].positions =
                IF k \in Places(updatedBefore, lastReg)
                THEN Append(updatedBefore[k].positions, lastCoords)
                ELSE updatedBefore[k].positions
    /\ mergePc \in {"loop", "returned"} =>
        /\ Len(updated) >= Len(previousData)
        /\ \A k \in 1..Len(previousData) :
            IsPrefix(previousData[k].positions, updated[k].positions)
    /\ \A k \in 1..Len(previousData) :
            IsPrefix(previousData[k].positions, droneData[k].positions)

\* an update for a drone that has a record was merged
C7_Witness ==
    /\ IterDone
    /\ \E k \in Places(updatedBefore, lastReg) :
        /\ Len(updatedBefore[k].positions) >= 1
        /\ updated[k].positions # updatedBefore[k].positions

\* every record of arr has a non-empty history that ends at its current
\* position
HistoryEndsAtCurrent(arr) ==
    \A k \in 1..Len(arr) :
        /\ arr[k].positions # <<>>
        /\ arr[k].positions[Len(arr[k].positions)]
                = Get(arr[k].geometry, "coordinates")

\* C8: in every state of the store (the committed array and the array a merge
\* is building) every record has a non-empty position history whose last
\* element is the record's current position.
C8_HistoryEndsAtCurrent ==
    HistoryEndsAtCurrent(droneData) /\ HistoryEndsAtCurrent(updated)

\* a drone of the store has moved: its record holds two different positions
C8_Witness ==
    \E k \in 1..Len(droneData) :
        /\ Len(droneData[k].positions) >= 2
        /\ droneData[k].positions[1] # droneData[k].positions[2]

\* no two records of arr have the same registration
UniqueRegistrations(arr) ==
    \A j, k \in 1..Len(arr) :
        j # k => Get(arr[j].properties, "registration")
                    # Get(arr[k].properties, "registration")

\* C9: in every state of the store no two records have the same registration.
C9_UniqueRegistrations ==
    UniqueRegistrations(droneData) /\ UniqueRegistrations(updated)

\* one batch held two updates for a registration the store did not have, and
\* both have been merged
C9_Witness ==
    /\ mergePc = "returned"
    /\ Len(newData) >= 2
    /\ WellFormed(newData[1])
    /\ WellFormed(newData[2])
    /\ newData[1].properties.registration = newData[2].properties.registration
    /\ Places(previousData, newData[1].properties.registration) = {}
    /\ Places(droneData, newData[1].properties.registration) # {}

\* C11: every snapshot a reader observes is the store before a batch or the
\* store after all updates of that batch: while the forEach runs, and when it
\* was aborted, droneData is the array the call was given; once the call has
\* returned, droneData is the working copy after the last feature.
C11_BatchAtomic ==
    /\ mergePc \in {"loop", "threw"} => droneData = previousData
    /\ mergePc = "returned" => droneData = updated /\ i = Len(newData) + 1

\* the first of the two updates of a batch has changed the working copy, the
\* second has not been merged yet
C11_Witness ==
    /\ mergePc = "loop"
    /\ Len(newData) = 2
    /\ i = 2
    /\ updated # previousData

\* C13: merging a batch with no features leaves the snapshot unchanged: the
\* array returned has the records of the array given, in the same order,
\* with the same histories, positions and attributes.
C13_EmptyBatchIsIdentity ==
    (mergePc = "returned" /\ newData = <<>>) =>
        (droneData = previousData /\ updated = previousData)

\* a batch with no features was merged into a store that has a record
C13_Witness ==
    /\ mergePc = "returned"
    /\ newData = <<>>
    /\ previousData # <<>>
    /\ droneData # <<>>

----------------------------------------------------------------------------
(* Spec: the map page, mounted and unmounted.  The feed sends features of   *)
(* the known message shape (ViewFeature), for which mergeDroneData raises  *)
(* nothing.                                                                *)
(*                                                                         *)
(* A socket message queues a functional update of droneData; the next      *)
(* render applies the queued updates in order and then runs the markers    *)
(* effect (dependencies droneData, selectedDrone).  A click is a discrete  *)
(* event: its selection update is rendered, and the effect run, before the *)
(* next event; message updates still queued stay queued.  Time advances in *)
(* steps of TickMs, and a setTimeout callback runs when its delay is over. *)

FLY_DURATION == 1000
ANIMATION_BUFFER == 1100

RECURSIVE GCD(_, _)
GCD(a, b) == IF b = 0 THEN a ELSE GCD(b, a % b)

\* the step of the clock: every multiple of it is a moment an event can come
TickMs == GCD(FLY_DURATION, ANIMATION_BUFFER)

\* a variant of ApplyUpdaters: every update computed from the array of the
\* last render, setDroneData(mergeDroneData(droneData, data))
ApplyUpdaters_StaleSnapshot(state, q) ==
    IF q = <<>> THEN Returns(state)
    ELSE mergeDroneData(state, q[Len(q)])

\* React applies the queued updaters in order, each to the result of the
\* one before: setDroneData(previousData => mergeDroneData(previousData, data))
RECURSIVE ApplyUpdaters(_, _)
ApplyUpdaters(state, q) ==
    IF q = <<>> THEN Returns(state)
    ELSE LET r == mergeDroneData(state, q[1]) IN
         IF r.threw THEN r ELSE ApplyUpdaters(r.value, Tail(q))

NonEmpty(features) == features # <<>>

RegsOf(data) == {data[k].properties.registration : k \in 1..Len(data)}

\* droneData.find(d => d.properties.registration === selectedDrone) finds one
Found(data, reg) == \E k \in 1..Len(data) : data[k].properties.registration = reg

\* the camera part of the effect starts a fly
WillFly(data, sel, markers) == sel # Null /\ sel \in markers /\ Found(data, sel)

\* the record of data that has registration reg
RecordFor(data, reg) ==
    data[CHOOSE k \in 1..Len(data) : data[k].properties.registration = reg]

\* a variant of FlyCenter: the camera flies to where the drone was first seen
FlyCenter_FirstPosition(data, sel) == RecordFor(data, sel).positions[1]

\* the center given to flyTo: the coordinates of the selected drone's record
FlyCenter(data, sel) == RecordFor(data, sel).geometry.coordinates

\* a variant of MarkerFor: a new marker for every record of every run
MarkerFor_AlwaysCreates(markers, hasRef, coords) == Append(markers, coords)

\* marker management for one record, markers being the markers of its
\* registration on the map: the marker that markersRef holds is moved to
\* coords; without one a new marker is added there
MarkerFor(markers, hasRef, coords) ==
    IF hasRef THEN [markers EXCEPT ![Len(markers)] = coords]
    ELSE Append(markers, coords)

\* flight path rendering for one record, sources being the sources with its
\* path id, each held as the history its line geometry is the curve of
\* (FlightPath): setData on the source that getSource(pathId) finds,
\* addSource and addLayer when it finds none
SourceFor(sources, positions) ==
    IF ~HasPath(positions) THEN sources
    ELSE IF sources # <<>> THEN [sources EXCEPT ![1] = positions]
    ELSE Append(sources, positions)

\* a variant of MarkersEffect: the guard is set and the fly started, but no
\* setTimeout is made
MarkersEffect_NoTimer(data, sel) ==
    IF ~mapRef
    THEN UNCHANGED <<markersRef, isProgrammaticMove, flyRemaining, timers,
                     mapVars>>
    ELSE
    LET markers == markersRef \cup RegsOf(data) IN
    /\ markersRef' = markers
    /\ mapMarkers' = [r \in Regs |->
            IF Found(data, r)
            THEN MarkerFor(mapMarkers[r], r \in markersRef,
                           RecordFor(data, r).geometry.coordinates)
            ELSE mapMarkers[r]]
    /\ mapSources' = [r \in Regs |->
            IF Found(data, r)
            THEN SourceFor(mapSources[r], RecordFor(data, r).positions)
            ELSE mapSources[r]]
    /\ IF WillFly(data, sel, markers)
       THEN /\ isProgrammaticMove' = TRUE
            /\ flyRemaining' = FLY_DURATION
            /\ flyCenter' = <<FlyCenter(data, sel)>>
            /\ UNCHANGED timers
       ELSE UNCHANGED <<isProgrammaticMove, flyRemaining, timers, flyCenter>>

\* the markers effect, run after a render that committed data and sel:
\* nothing without a map instance; otherwise, for every record, its marker
\* and its flight path, and then the camera control
MarkersEffect(data, sel) ==
    IF ~mapRef
    THEN UNCHANGED <<markersRef, isProgrammaticMove, flyRemaining, timers,
                     mapVars>>
    ELSE
    LET markers == markersRef \cup RegsOf(data) IN
    /\ markersRef' = markers
    /\ mapMarkers' = [r \in Regs |->
            IF Found(data, r)
            THEN MarkerFor(mapMarkers[r], r \in markersRef,
                           RecordFor(data, r).geometry.coordinates)
            ELSE mapMarkers[r]]
    /\ mapSources' = [r \in Regs |->
            IF Found(data, r)
            THEN SourceFor(mapSources[r], RecordFor(data, r).positions)
            ELSE mapSources[r]]
    /\ IF WillFly(data, sel, markers)
       THEN /\ Len(timers) < MaxTimers
            /\ isProgrammaticMove' = TRUE
            /\ flyRemaining' = FLY_DURATION
            /\ flyCenter' = <<FlyCenter(data, sel)>>
            /\ timers' = Append(timers, ANIMATION_BUFFER)
       ELSE UNCHANGED <<isProgrammaticMove, flyRemaining, timers, flyCenter>>

Init ==
    /\ ClassifyIdle
    /\ CurveIdle
    /\ MergeIdle
    /\ ViewInit

\* the effects of the first render, children first: MapContainer creates the
\* map and registers its listeners (the markers effect finds no record),
\* then MapPage registers its socket handlers and the statistics effect calls
\* setDroneStats(calculateDroneStats([]))
Mount ==
    /\ lifecycle # "mounted"
    /\ lifecycle' = "mounted"
    /\ mapRef' = TRUE
    /\ socketHandlers' = socketHandlers + 1
    /\ pendingStats' = <<calculateDroneStats(droneData)>>
    /\ UNCHANGED <<droneData, queue, received, flushed, selectedDrone,
                   markersRef, isProgrammaticMove, timers, flyRemaining,
                   droneStats, mapVars>>
    /\ UNCHANGED <<classifyVars, curveVars, mergeVars>>

\* React discards the state and the refs of an unmounted instance: the next
\* mount starts from the initial values again
InstanceDiscarded ==
    /\ droneData' = <<>>
    /\ queue' = <<>>
    /\ received' = <<>>
    /\ flushed' = 0
    /\ selectedDrone' = Null
    /\ markersRef' = {}
    /\ isProgrammaticMove' = FALSE
    /\ timers' = <<>>
    /\ flyRemaining' = 0
    /\ droneStats' = InitialStats
    /\ pendingStats' = NotCalled
    /\ mapMarkers' = [r \in Regs |-> <<>>]
    /\ mapSources' = [r \in Regs |-> <<>>]
    /\ flyCenter' = NotCalled

\* a variant of Unmount: the cleanup of the socket effect removes nothing
Unmount_LeavesListener ==
    /\ lifecycle = "mounted"
    /\ lifecycle' = "unmounted"
    /\ UNCHANGED socketHandlers
    /\ mapRef' = FALSE
    /\ InstanceDiscarded
    /\ UNCHANGED <<classifyVars, curveVars, mergeVars>>

\* the cleanups at unmount: socket.off for both handlers, the map listeners
\* removed, mapRef.current.remove() and mapRef.current = null
Unmount ==
    /\ lifecycle = "mounted"
    /\ lifecycle' = "unmounted"
    /\ socketHandlers' = socketHandlers - 1
    /\ mapRef' = FALSE
    /\ InstanceDiscarded
    /\ UNCHANGED <<classifyVars, curveVars, mergeVars>>

\* no render is scheduled.  The render that the statistics effect schedules
\* runs before the next event is handled: an event finds the page settled.
Settled == pendingStats = NotCalled

\* the message whose features are for the registrations regs, in this order
ViewBatch(regs) ==
    [k \in 1..Len(regs) |-> ViewFeature(regs[k], Len(received) + k - 1)]

\* socket "message": every registered handleMessage queues its update
HandleMessage(features) ==
    /\ socketHandlers > 0
    /\ Settled
    /\ Len(queue) + socketHandlers <= MaxQueue
    /\ queue' = queue \o [k \in 1..socketHandlers |-> features]
    /\ Record(features)
    /\ UNCHANGED <<droneData, flushed, selectedDrone, markersRef,
                   isProgrammaticMove, timers, flyRemaining,
                   lifeVars, statsVars, mapVars>>
    /\ UNCHANGED <<classifyVars, curveVars, mergeVars>>

\* socket "message" while no handler is registered: nothing runs
MessageUnheard(features) ==
    /\ socketHandlers = 0
    /\ UNCHANGED vars

\* the render of the queued updates, and the effects after it: the markers
\* effect, and the statistics effect, which calls
\* setDroneStats(calculateDroneStats(droneData)) for a later render
Render ==
    /\ queue # <<>>
    /\ Settled
    /\ LET r == ApplyUpdaters(droneData, queue) IN
       /\ ~r.threw
       /\ droneData' = r.value
       /\ MarkersEffect(r.value, selectedDrone)
       /\ pendingStats' = <<calculateDroneStats(r.value)>>
    /\ queue' = <<>>
    /\ flushed' = Len(SelectSeq(queue, NonEmpty))
    /\ UNCHANGED <<received, selectedDrone, droneStats, lifeVars>>
    /\ UNCHANGED <<classifyVars, curveVars, mergeVars>>

\* the render of the statistics the effect has set
StatsRender ==
    /\ pendingStats # NotCalled
    /\ droneStats' = pendingStats[1]
    /\ pendingStats' = NotCalled
    /\ UNCHANGED <<droneData, queue, received, flushed, selectedDrone,
                   markersRef, isProgrammaticMove, timers, flyRemaining,
                   lifeVars, mapVars>>
    /\ UNCHANGED <<classifyVars, curveVars, mergeVars>>

\* a variant of SetSelectedDrone: selecting the selected drone deselects it,
\* setSelectedDrone(prev => prev === value ? null : value)
SetSelectedDrone_Toggles(value) ==
    /\ IF value = selectedDrone
       THEN /\ selectedDrone' = Null
            /\ MarkersEffect(droneData, Null)
       ELSE /\ selectedDrone' = value
            /\ MarkersEffect(droneData, value)
    /\ UNCHANGED <<droneData, queue, received, flushed, lifeVars, statsVars>>
    /\ UNCHANGED <<classifyVars, curveVars, mergeVars>>

\* setSelectedDrone(value) from an event handler: no render when the value is
\* the current one; otherwise the render and the effect
SetSelectedDrone(value) ==
    /\ IF value = selectedDrone
       THEN UNCHANGED <<selectedDrone, markersRef, isProgrammaticMove,
                        flyRemaining, timers, mapVars>>
       ELSE /\ selectedDrone' = value
            /\ MarkersEffect(droneData, value)
    /\ UNCHANGED <<droneData, queue, received, flushed, lifeVars, statsVars>>
    /\ UNCHANGED <<classifyVars, curveVars, mergeVars>>

\* click on the marker of reg
MarkerClick(reg) ==
    /\ reg \in markersRef
    /\ Settled
    /\ SetSelectedDrone(reg)

\* a variant of ListClick: the list has an item for every registration of
\* the feed, in the store or not
ListClick_AnyItem(reg) ==
    /\ lifecycle = "mounted"
    /\ Settled
    /\ SetSelectedDrone(reg)

\* click on the list item of reg (DroneMenu: handleDroneSelect)
ListClick(reg) ==
    /\ Found(droneData, reg)
    /\ Settled
    /\ SetSelectedDrone(reg)

\* resetSelection(): nothing during a programmatic move
resetSelection ==
    IF isProgrammaticMove
    THEN UNCHANGED vars
    ELSE SetSelectedDrone(Null)

\* the map events whose handler is createInteractionHandler(name)
InteractionEvents ==
    {"dragstart", "wheel", "boxzoomstart", "dblclick", "touchstart"}

\* one of these events on the map: its handler calls resetSelection()
MapInteraction(event) ==
    /\ mapRef
    /\ Settled
    /\ event \in InteractionEvents
    /\ resetSelection

\* a variant of MapClick that does not look at the target of the click
MapClick_IgnoresMarker(clickedOnMarker, features) ==
    /\ mapRef
    /\ Settled
    /\ IF features = 0
       THEN resetSelection
       ELSE UNCHANGED vars

\* "click" on the map: handleClick resets the selection when the target is
\* not inside a marker element and queryRenderedFeatures(e.point) is empty;
\* features is the length of that array
MapClick(clickedOnMarker, features) ==
    /\ mapRef
    /\ Settled
    /\ IF ~clickedOnMarker /\ features = 0
       THEN resetSelection
       ELSE UNCHANGED vars

\* TickMs of time pass; no callback is overdue
Tick ==
    /\ timers # <<>> \/ flyRemaining > 0
    /\ Settled
    /\ \A k \in 1..Len(timers) : timers[k] > 0
    /\ timers' = [k \in 1..Len(timers) |-> timers[k] - TickMs]
    /\ flyRemaining' = IF flyRemaining > TickMs THEN flyRemaining - TickMs ELSE 0
    /\ flyCenter' = IF flyRemaining > TickMs THEN flyCenter ELSE NotCalled
    /\ UNCHANGED <<droneData, queue, received, flushed, selectedDrone,
                   markersRef, isProgrammaticMove, lifeVars, statsVars,
                   mapMarkers, mapSources>>
    /\ UNCHANGED <<classifyVars, curveVars, mergeVars>>

\* a variant of TimerFire: the callback leaves the guard as it is
TimerFire_KeepsGuard ==
    /\ timers # <<>>
    /\ timers[1] = 0
    /\ Settled
    /\ UNCHANGED isProgrammaticMove
    /\ timers' = Tail(timers)
    /\ UNCHANGED <<droneData, queue, received, flushed, selectedDrone,
                   markersRef, flyRemaining, lifeVars, statsVars, mapVars>>
    /\ UNCHANGED <<classifyVars, curveVars, mergeVars>>

\* the setTimeout callback: isProgrammaticMove.current = false
TimerFire ==
    /\ timers # <<>>
    /\ timers[1] = 0
    /\ Settled
    /\ isProgrammaticMove' = FALSE
    /\ timers' = Tail(timers)
    /\ UNCHANGED <<droneData, queue, received, flushed, selectedDrone,
                   markersRef, flyRemaining, lifeVars, statsVars, mapVars>>
    /\ UNCHANGED <<classifyVars, curveVars, mergeVars>>

\* the numbers of rendered features a click can find under its point
FeatureCounts == {0, 1}

Next ==
    \/ Mount
    \/ Unmount
    \/ \E regs \in Batches(Regs, MaxViewFeatures) :
            HandleMessage(ViewBatch(regs))
    \/ \E regs \in Batches(Regs, MaxViewFeatures) :
            MessageUnheard(ViewBatch(regs))
    \/ Render
    \/ StatsRender
    \/ \E reg \in Regs : MarkerClick(reg)
    \/ \E reg \in Regs : ListClick(reg)
    \/ \E event \in InteractionEvents : MapInteraction(event)
    \/ \E clickedOnMarker \in BOOLEAN, features \in FeatureCounts :
            MapClick(clickedOnMarker, features)
    \/ Tick
    \/ TimerFire

Spec == Init /\ [][Next]_vars

\* C4: from the start of every camera fly until its duration has elapsed the
\* guard is set: while an animation is in flight, isProgrammaticMove holds.
C4_GuardCoversFly == flyRemaining > 0 => isProgrammaticMove

\* the coordinates of the features of a sequence that carry registration reg
RECURSIVE CoordsFor(_, _)
CoordsFor(reg, features) ==
    IF features = <<>> THEN <<>>
    ELSE (IF features[1].properties.registration = reg
          THEN <<features[1].geometry.coordinates>> ELSE <<>>)
         \o CoordsFor(reg, Tail(features))

\* the features already rendered: those received, less those still queued
Rendered == SubSeq(received, 1, Len(received) - Len(Flatten(queue)))

\* C10: the position history of each drone is the sequence of the coordinates
\* of all updates received for its registration, in the order of delivery
\* (message by message, feature by feature), whether the messages were
\* rendered one by one or several in one render; every rendered registration
\* has its record.
C10_HistoryIsArrivalOrder ==
    /\ \A k \in 1..Len(droneData) :
        droneData[k].positions
            = CoordsFor(droneData[k].properties.registration, Rendered)
    /\ RegsOf(droneData) = RegsOf(Rendered)

\* two messages, each with an update for the same drone, were delivered
\* before one render applied both
C10_Witness ==
    /\ flushed >= 2
    /\ queue = <<>>
    /\ Len(received) = 2
    /\ received[1].properties.registration = received[2].properties.registration

\* C12: no deletion.  Under any sequence of feed messages, selections and
\* map interactions the set of registrations of the store only grows: every
\* registration that a render has merged so far has its record in the store.
C12_NoDeletion ==
    \A k \in 1..Len(Rendered) :
        Found(droneData, Rendered[k].properties.registration)

\* the record of the store has been there since the first update: a second
\* update was merged into it, and it was selected and deselected again
C12_Witness ==
    /\ Len(droneData) = 1
    /\ Len(droneData[1].positions) = 2
    /\ selectedDrone = Null
    /\ timers # <<>>

\* C14: the selection starts empty, and an explicit selection of r (a click
\* on the marker or on the list item of r), made in any state, with the guard
\* set or not, leaves r selected after that one step, with no empty selection
\* in between: no step that ends with another selection, or none, is a click
\* on the marker or the list item of r.
C14_SelectionInOneStep ==
    /\ selectedDrone = Null
    /\ [][\A reg \in Regs :
            selectedDrone' # reg => ~(MarkerClick(reg) \/ ListClick(reg))]_vars

\* R2 is selected while the guard is set and two flies are waiting for their
\* timers, in a store that has R1 as well
C14_Witness ==
    /\ selectedDrone = R2
    /\ isProgrammaticMove
    /\ Len(timers) = 2
    /\ RegsOf(droneData) = {R1, R2}

\* C15: once more than ANIMATION_BUFFER ms have passed since the most
\* recently started fly (its callback, the last one pending, has run), the
\* guard is cleared, and a pan made with a drone selected deselects it.
C15_DeselectAfterWindow ==
    /\ [](timers = <<>> => ~isProgrammaticMove)
    /\ [][(timers = <<>> /\ MapInteraction("dragstart"))
                => selectedDrone' = Null]_vars

\* a drone is selected, its fly is over and the window has passed
C15_Witness ==
    /\ selectedDrone # Null
    /\ markersRef # {}
    /\ timers = <<>>
    /\ flyRemaining = 0
    /\ ~isProgrammaticMove

\* C16: with the guard not set, each kind of map interaction (dragstart,
\* wheel, boxzoomstart, dblclick, touchstart, and a click on the background:
\* not inside a marker and with no rendered feature under its point) clears
\* the selection; a click inside a marker never clears it.  (No step that
\* leaves a drone selected is such an interaction made with the guard not
\* set; no step that changes the selection is a map click inside a marker;
\* no step that ends with no selection is the click on a marker.)
C16_InteractionsClear ==
    [][/\ (~isProgrammaticMove /\ selectedDrone' # Null) =>
             /\ \A event \in InteractionEvents : ~MapInteraction(event)
             /\ ~MapClick(FALSE, 0)
       /\ selectedDrone' # selectedDrone =>
             \A features \in FeatureCounts : ~MapClick(TRUE, features)
       /\ selectedDrone' = Null => \A reg \in Regs : ~MarkerClick(reg)]_vars

\* a selection was cleared by an interaction while a timer was still pending
C16_Witness ==
    /\ selectedDrone = Null
    /\ ~isProgrammaticMove
    /\ timers # <<>>
    /\ droneData # <<>>

\* C17: the socket has exactly one message handler while the page is
\* mounted and none before the mount and after the teardown; the map
\* instance exists exactly while the page is mounted; after the teardown no
\* feed message is delivered, queued or merged.
C17_Lifecycle ==
    /\ lifecycle = "mounted" => (socketHandlers = 1 /\ mapRef)
    /\ lifecycle # "mounted" =>
            /\ socketHandlers = 0
            /\ ~mapRef
            /\ received = <<>>
            /\ queue = <<>>
            /\ droneData = <<>>

\* the page has been torn down
C17_Witness ==
    /\ lifecycle = "unmounted"
    /\ socketHandlers = 0
    /\ ~mapRef

\* C19: in every state a display surface can observe, the statistics shown
\* are calculateDroneStats of the records shown in that same state.
C19_StatsMatchRecords == droneStats = calculateDroneStats(droneData)

\* one camera fly to the current position of reg starts in this step
FlyStartsOn(reg) ==
    /\ Found(droneData', reg)
    /\ timers' = Append(timers, ANIMATION_BUFFER)
    /\ flyRemaining' = FLY_DURATION
    /\ flyCenter' = <<RecordFor(droneData', reg).geometry.coordinates>>

\* C22: with the map initialized, the step that makes reg the selection (a
\* click on its marker or its list item) and every render of feed messages
\* made while reg is selected start one camera fly (one animation of
\* FLY_DURATION, one guard timer) centred on the coordinates reg has in the
\* store after the step; and no step that ends with no selection starts a
\* fly.
C22_CameraFollows ==
    [][/\ selectedDrone' = Null =>
              /\ Len(timers') <= Len(timers)
              /\ flyRemaining' <= flyRemaining
       /\ \A reg \in Regs :
              (/\ mapRef
               /\ selectedDrone' = reg
               /\ selectedDrone # reg \/ (queue # <<>> /\ queue' = <<>>)
               /\ ~FlyStartsOn(reg))
              => ~(MarkerClick(reg) \/ ListClick(reg) \/ Render)]_vars

\* the camera is flying to the second position of R1, which was selected
\* before the update that moved it was rendered
C22_Witness ==
    /\ selectedDrone = R1
    /\ Len(RecordFor(droneData, R1).positions) = 2
    /\ flyCenter = <<RecordFor(droneData, R1).geometry.coordinates>>
    /\ Len(timers) = 2

\* C28: the guard is not set before the first fly (none has started on a
\* page that has just been built or mounted); whenever it is set, a timer
\* that clears it is pending and due within ANIMATION_BUFFER ms; and the
\* youngest timer is the one of the last fly, due ANIMATION_BUFFER ms after
\* that fly started, so the guard is clear by then if no other fly starts.
C28_GuardHasTimer ==
    /\ lifecycle = "initial" => ~isProgrammaticMove
    /\ isProgrammaticMove =>
            /\ timers # <<>>
            /\ \A k \in 1..Len(timers) : timers[k] \in 0..ANIMATION_BUFFER
    /\ flyRemaining > 0 =>
            /\ timers # <<>>
            /\ timers[Len(timers)]
                    = flyRemaining + (ANIMATION_BUFFER - FLY_DURATION)

\* the guard is still set after the animation of the last fly has ended, and
\* the one timer left is due
C28_Witness ==
    /\ isProgrammaticMove
    /\ flyRemaining = 0
    /\ timers = <<0>>
    /\ selectedDrone # Null

\* C29: the selection is empty or the registration of a record of the store.
C29_SelectionInStore ==
    selectedDrone = Null \/ Found(droneData, selectedDrone)

\* the drone that is selected is the second record of the store
C29_Witness ==
    /\ Len(droneData) = 2
    /\ selectedDrone = droneData[2].properties.registration

\* C30: on the initialized map every registration has at most one marker
\* and at most one path source; the marker of a record of the store is at
\* the record's current coordinates (an update moved it there), and a record
\* has its one source, drawn from its whole history, exactly when its history
\* has at least two positions.
C30_NoDuplicates ==
    \A reg \in Regs :
        /\ Len(mapMarkers[reg]) <= 1
        /\ Len(mapSources[reg]) <= 1
        /\ (mapRef /\ Found(droneData, reg)) =>
              LET drone == RecordFor(droneData, reg) IN
              /\ mapMarkers[reg] = <<drone.geometry.coordinates>>
              /\ mapSources[reg] = IF HasPath(drone.positions)
                                   THEN <<drone.positions>> ELSE <<>>

\* R1 was updated once, so that its marker was moved and its path source
\* added, and was selected after that, so that the effect ran again on the
\* marker and the source it had made
C30_Witness ==
    /\ selectedDrone = R1
    /\ flyCenter # NotCalled
    /\ Len(mapMarkers[R1]) = 1
    /\ Len(mapSources[R1]) = 1
    /\ Len(mapSources[R1][1]) = 2
    /\ queue = <<>>

----------------------------------------------------------------------------
(* SpecStore: the store under a feed of well-formed messages, one call of  *)
(* handleMessage's updater per step                                        *)

WellFormedFeatures == {f \in AnyFeatures : WellFormed(f)}

InitStore ==
    /\ ClassifyIdle
    /\ CurveIdle
    /\ MergeIdle
    /\ ViewInit

\* setDroneData((previousData) => mergeDroneData(previousData, data)) for one
\* message: previousData is the snapshot the call was given, as its holders
\* see it after the call; droneData is the array the call returned
StoreMessage(features) ==
    /\ Record(features)
    /\ newData' = features
    /\ previousData' = droneData
    /\ droneData' = mergeDroneData(droneData, features).value
    /\ UNCHANGED <<updated, updatedBefore, i, mergePc>>
    /\ UNCHANGED <<classifyVars, curveVars, viewVars>>

NextStore ==
    \E features \in Batches(WellFormedFeatures, MaxStoreFeatures) :
        StoreMessage(features)

SpecStore == InitStore /\ [][NextStore]_vars

\* the registrations of the records of arr, in the order of the array
RegsInOrder(arr) == [k \in 1..Len(arr) |-> arr[k].properties.registration]

\* the registrations of the features fs, each at its first occurrence
RECURSIVE FirstSeen(_)
FirstSeen(fs) ==
    IF fs = <<>> THEN <<>>
    ELSE LET before == FirstSeen(SubSeq(fs, 1, Len(fs) - 1))
             reg == fs[Len(fs)].properties.registration
         IN  IF \E k \in 1..Len(before) : before[k] = reg THEN before
             ELSE Append(before, reg)

\* C23: the snapshot lists its records in the order in which their
\* registrations were first seen in the feed, and a message leaves every
\* record that was in the snapshot at the place it had.
C23_FirstSeenOrder ==
    /\ RegsInOrder(droneData) = FirstSeen(received)
    /\ IsPrefix(RegsInOrder(previousData), RegsInOrder(droneData))

\* both drones were in the store, and then an update for the first of them
\* was merged
C23_Witness ==
    /\ Len(previousData) = 2
    /\ Len(newData) = 1
    /\ newData[1].properties.registration = previousData[1].properties.registration
    /\ Len(droneData) = 2

\* the registrations the features of the last message name
BatchRegs == {newData[k].properties.registration : k \in 1..Len(newData)}

\* C27: the merge of a message leaves every record whose registration the
\* message does not name exactly as it was, at its place; and the snapshot
\* the merge was given is, after the call, still the array it was before it
\* (the merge of the features received before this message).
C27_OthersUntouched ==
    /\ Len(previousData) <= Len(droneData)
    /\ \A k \in 1..Len(previousData) :
            previousData[k].properties.registration \notin BatchRegs
                => droneData[k] = previousData[k]
    /\ previousData =
            mergeDroneData(<<>>, SubSeq(received, 1,
                                        Len(received) - Len(newData))).value

\* both drones were in the store, and then a message updated the second of
\* them and did not name the first
C27_Witness ==
    /\ Len(newData) = 1
    /\ Len(previousData) = 2
    /\ previousData[1].properties.registration \notin BatchRegs
    /\ previousData[2].properties.registration \in BatchRegs
    /\ droneData[2] # previousData[2]

====
